---- MODULE Spec2Model ----
(***************************************************************************)
(* A model of ollama-dl-go (src/main.go): the manifest resolver            *)
(* (getDownloadJobs), the orchestrator (main's dispatch loop and the       *)
(* WaitGroup join) and the blob transfer unit (downloadBlob), running over *)
(* a file system with inodes, so that an open descriptor keeps following   *)
(* its file across a rename.                                               *)
(*                                                                         *)
(* Strings the code slices or concatenates (digests, file names, paths)    *)
(* are sequences of tokens; a blob is a sequence of bytes.                 *)
(***************************************************************************)
EXTENDS Integers, Sequences, FiniteSets, TLC

\* ------------------------------------------------------------------ bounds
\* numRetries is the program's constant; the others bound the model.
numRetries == 10
MaxLayers  == 2
MaxFileLen == 3
MaxRuns    == 2
FanOut     == 3

\* ----------------------------------------------------------------- strings
Rep(c, n) == [i \in 1..n |-> c]

HasPrefix(s, p) == Len(s) >= Len(p) /\ SubSeq(s, 1, Len(p)) = p

Sha256Prefix == <<"s", "h", "a", "2", "5", "6", ":">>

\* Digests of the registry's blobs.  DigestA0 and DigestA1 differ only after
\* their first 12 hex characters; DigestMd5 has another algorithm; DigestShort
\* has the sha256 prefix and fewer than 12 hex characters.
DigestA0    == Sha256Prefix \o Rep("a", 12) \o <<"0">>
DigestA1    == Sha256Prefix \o Rep("a", 12) \o <<"1">>
DigestB0    == Sha256Prefix \o Rep("b", 12) \o <<"0">>
DigestC0    == Sha256Prefix \o Rep("c", 12) \o <<"0">>
DigestD0    == Sha256Prefix \o Rep("d", 12) \o <<"0">>
DigestMd5   == <<"m", "d", "5", ":">> \o Rep("a", 16)
DigestShort == Sha256Prefix \o Rep("a", 3)

ManifestV2 == "application/vnd.docker.distribution.manifest.v2+json"

mediaTypeToFileTemplate ==
    [t \in {"application/vnd.ollama.image.license",
            "application/vnd.ollama.image.model",
            "application/vnd.ollama.image.params",
            "application/vnd.ollama.image.system",
            "application/vnd.ollama.image.template"} |->
       CASE t = "application/vnd.ollama.image.license"  -> <<"license-", ".txt">>
         [] t = "application/vnd.ollama.image.model"    -> <<"model-", ".gguf">>
         [] t = "application/vnd.ollama.image.params"   -> <<"params-", ".json">>
         [] t = "application/vnd.ollama.image.system"   -> <<"system-", ".txt">>
         [] t = "application/vnd.ollama.image.template" -> <<"template-", ".txt">>]

\* The layers a manifest of the model may list.
Layer(mt, dg, sz) == [MediaType |-> mt, Digest |-> dg, Size |-> sz]

LayerUniverse ==
    { Layer("application/vnd.ollama.image.model",  DigestA0, 1),
      Layer("application/vnd.ollama.image.model",  DigestA1, 1),
      Layer("application/vnd.ollama.image.params", DigestB0, 1),
      Layer("application/vnd.example.unknown",     DigestB0, 1),
      Layer("application/vnd.example.unknown",     DigestMd5, 1),
      Layer("application/vnd.ollama.image.model",  DigestMd5, 1),
      Layer("application/vnd.ollama.image.model",  DigestShort, 1) }

\* The layers of the artifacts that are downloaded in several runs: blobs of
\* one byte, of two bytes and of none.
ResumeLayers ==
    { Layer("application/vnd.ollama.image.model",  DigestA0, 1),
      Layer("application/vnd.ollama.image.params", DigestC0, 2),
      Layer("application/vnd.ollama.image.system", DigestD0, 0) }

\* The registry's blob for a digest: the bytes a full GET of job.BlobURL serves.
\* Its length is the size the manifest states for the layer.
Blob(layer) ==
    LET tag == CASE layer.Digest = DigestA0 -> "a0"
                 [] layer.Digest = DigestA1 -> "a1"
                 [] layer.Digest = DigestB0 -> "b0"
                 [] layer.Digest = DigestC0 -> "c0"
                 [] OTHER                   -> "d0"
    IN  [i \in 1..layer.Size |-> <<tag, i>>]

\* ---------------------------------------------------------------- resolver
\* (getShortHashUnchecked is getShortHash without the test of the prefix.)
getShortHashUnchecked(layer) ==
    IF Len(layer.Digest) < 19
      THEN [kind |-> "panic", val |-> <<>>]
    ELSE [kind |-> "ok", val |-> SubSeq(layer.Digest, 8, 19)]

\* getShortHash: the 12 characters after "sha256:", an error for another
\* prefix, and a runtime panic (slice bounds out of range) for a digest
\* shorter than 19 characters.
getShortHash(layer) ==
    IF ~HasPrefix(layer.Digest, Sha256Prefix)
      THEN [kind |-> "err", val |-> <<>>]
    ELSE IF Len(layer.Digest) < 19
      THEN [kind |-> "panic", val |-> <<>>]
    ELSE [kind |-> "ok", val |-> SubSeq(layer.Digest, 8, 19)]

DestDir == "library-m-latest"

\* fmt.Sprintf(fileTemplate, shortHash) and filepath.Join(destDir, filename).
DestPathOf(layer) ==
    LET tpl == mediaTypeToFileTemplate[layer.MediaType]
    IN  <<DestDir, "/", tpl[1]>> \o getShortHash(layer).val \o <<tpl[2]>>

DownloadJob(layer) ==
    [Layer    |-> layer,
     DestPath |-> DestPathOf(layer),
     BlobURL  |-> <<"blobs/">> \o layer.Digest,
     Size     |-> layer.Size]

\* The loop of getDownloadJobs over manifest.Layers: a layer of an unknown
\* media type is passed over, a digest error ends the call.
RECURSIVE JobsOfLayers(_)
JobsOfLayers(layers) ==
    IF layers = <<>> THEN [kind |-> "ok", jobs |-> <<>>]
    ELSE LET layer == Head(layers)
             rest  == JobsOfLayers(Tail(layers))
         IN  IF layer.MediaType \notin DOMAIN mediaTypeToFileTemplate
               THEN rest
             ELSE IF getShortHash(layer).kind # "ok"
               THEN [kind |-> getShortHash(layer).kind, jobs |-> <<>>]
             ELSE IF rest.kind # "ok" THEN rest
             ELSE [kind |-> "ok", jobs |-> <<DownloadJob(layer)>> \o rest.jobs]

\* getDownloadJobs: `fetch` is what the manifest request met ("ok", a transport
\* error, a non-200 status, a body that does not decode).
getDownloadJobs(fetch, m) ==
    IF fetch # "ok" THEN [kind |-> "err", jobs |-> <<>>]
    ELSE IF m.MediaType # ManifestV2 THEN [kind |-> "err", jobs |-> <<>>]
    ELSE JobsOfLayers(m.Layers)

TempPath(job) == job.DestPath \o <<".tmp">>

\* The manifests the registry may serve: up to MaxLayers layers, or a document
\* of another media type.
RECURSIVE SeqsUpTo(_, _)
SeqsUpTo(S, n) ==
    IF n = 0 THEN {<<>>}
    ELSE LET shorter == SeqsUpTo(S, n - 1)
         IN  shorter \cup {Append(q, x) : q \in shorter, x \in S}

Manifests ==
    {[MediaType |-> ManifestV2, Layers |-> ls] : ls \in SeqsUpTo(LayerUniverse, MaxLayers)}
      \cup {[MediaType |-> "text/html", Layers |-> <<>>]}

\* Manifests of FanOut layers, each of them downloadable.
FanOutManifests ==
    {[MediaType |-> ManifestV2, Layers |-> ls] :
       ls \in [1..FanOut -> {l \in LayerUniverse :
                                /\ l.MediaType \in DOMAIN mediaTypeToFileTemplate
                                /\ getShortHash(l).kind = "ok"}]}

ResumeManifests ==
    {[MediaType |-> ManifestV2, Layers |-> <<l>>] : l \in ResumeLayers}

\* ------------------------------------------------------------------- state
VARIABLES
    manifest,   \* what the registry serves for the artifact
    run,        \* which run of the program this is (1 = the first)
    prev,       \* how the run before this one ended: none, killed, exited
    prevCompleted, \* the run before this one ended with every job Completed
    proc,       \* main's position: resolve, dispatch, wait, exited, killed
    exitCode,   \* the process's exit status, -1 while it runs
    jobs,       \* main's jobs, the result of getDownloadJobs
    nextJob,    \* the dispatch loop's index into jobs
    wg,         \* the WaitGroup's counter
    complete,   \* "Download complete" has been printed
    unit,       \* per job: its goroutine's state (downloadBlob's locals)
    dir,        \* what is at the destination directory: absent, dir, file
    fs,         \* directory entries: path -> inode
    files       \* inode -> content

vars == <<manifest, run, prev, prevCompleted, proc, exitCode, jobs, nextJob, wg, complete, unit, dir, fs, files>>

\* destAtCall is what the destination path held when downloadBlob was called
\* (<<>> for nothing, <<content>> for a file); bar is the last value pushed to
\* the progress bar in this call, -1 before the first.
Idle == [pc |-> "idle", attempt |-> 0, fd |-> 0, startOffset |-> 0, range |-> <<>>,
         status |-> 0, body |-> <<>>, err |-> "", requests |-> 0,
         destAtCall |-> <<>>, bar |-> -1]

Alive == proc \in {"resolve", "dispatch", "wait"}

Units == DOMAIN unit

\* ------------------------------------------------------------- file system
Exists(path) == path \in DOMAIN fs

Range(f) == {f[x] : x \in DOMAIN f}

\* The smallest inode number not in use.
NewIno(fl) == CHOOSE n \in 1..(Cardinality(DOMAIN fl) + 1) : n \notin DOMAIN fl

\* An inode lives while a directory entry names it or a descriptor a unit
\* is still to write through is open on it.
Gc(fl, d, u) ==
    LET live == Range(d) \cup {u[j].fd : j \in {k \in DOMAIN u : u[k].pc \in {"fetch", "copy"}}}
    IN  [i \in (DOMAIN fl) \cap live |-> fl[i]]

Remove(d, path) == [p \in (DOMAIN d) \ {path} |-> d[p]]

Put(d, path, ino) == [p \in (DOMAIN d) \cup {path} |-> IF p = path THEN ino ELSE d[p]]

\* os.Rename: the entry `to` now names the inode `from` named, replacing what
\* it named before; `from` is gone.
RenameEntry(d, from, to) == Remove(Put(d, to, d[from]), from)

Content(path) == files[fs[path]]

\* What a path holds: nothing, or a file of some content.
Holds(path) == IF Exists(path) THEN <<Content(path)>> ELSE <<>>

\* The pre-check of the dispatch loop, line 198: os.Stat finds the destination.
AlreadyHaveStaging(job) == Exists(job.DestPath \o <<".tmp">>)

AlreadyHave(job) == Exists(job.DestPath)

\* --------------------------------------------------------------------- Init
InitWith(ms) ==
    /\ manifest \in ms
    /\ run = 1
    /\ prev = "none"
    /\ prevCompleted = FALSE
    /\ proc = "resolve"
    /\ exitCode = -1
    /\ jobs = <<>>
    /\ nextJob = 1
    /\ wg = 0
    /\ complete = FALSE
    /\ unit = <<>>
    /\ dir \in {"absent", "file"}
    /\ fs = <<>>
    /\ files = <<>>

Init == InitWith(Manifests)

InitResume == InitWith(ResumeManifests)

InitFanOut == InitWith(FanOutManifests)

\* --------------------------------------------------------------------- main
\* Where main stands with the dispatch loop at index i: in the loop, or past
\* it at wg.Wait().
LoopAt(i, js) == IF i <= Len(js) THEN "dispatch" ELSE "wait"

\* main, lines 189-194: getDownloadJobs, and os.Exit(1) on its error (a panic
\* in getShortHash ends the process with status 2).
Resolve ==
    /\ proc = "resolve"
    /\ \E fetch \in {"ok", "neterr", "status", "decode"} :
         LET r == getDownloadJobs(fetch, manifest)
         IN  IF r.kind = "ok"
               THEN /\ jobs' = r.jobs
                    /\ unit' = [j \in 1..Len(r.jobs) |-> Idle]
                    /\ proc' = LoopAt(1, r.jobs)
                    /\ UNCHANGED exitCode
               ELSE /\ proc' = "exited"
                    /\ exitCode' = IF r.kind = "panic" THEN 2 ELSE 1
                    /\ UNCHANGED <<jobs, unit>>
    /\ nextJob' = 1
    /\ UNCHANGED <<manifest, run, prev, prevCompleted, wg, complete, dir, fs, files>>

\* (DispatchAddFirst is Dispatch with wg.Add(1) moved before the pre-check.)
DispatchAddFirst ==
    /\ proc = "dispatch"
    /\ nextJob <= Len(jobs)
    /\ wg' = wg + 1
    /\ IF AlreadyHave(jobs[nextJob])
         THEN unit' = [unit EXCEPT ![nextJob].pc = "skipped"]
         ELSE unit' = [unit EXCEPT ![nextJob].pc = "open", ![nextJob].attempt = 1]
    /\ nextJob' = nextJob + 1
    /\ proc' = LoopAt(nextJob + 1, jobs)
    /\ UNCHANGED <<manifest, run, prev, prevCompleted, exitCode, jobs, complete, dir, fs, files>>

\* One iteration of the dispatch loop, lines 197-208: the os.Stat pre-check,
\* then wg.Add(1) and the go statement.  After the last job main stands at
\* wg.Wait().
Dispatch ==
    /\ proc = "dispatch"
    /\ nextJob <= Len(jobs)
    /\ IF AlreadyHave(jobs[nextJob])
         THEN /\ unit' = [unit EXCEPT ![nextJob].pc = "skipped"]
              /\ UNCHANGED wg
         ELSE /\ wg' = wg + 1
              /\ unit' = [unit EXCEPT ![nextJob].pc = "open", ![nextJob].attempt = 1]
    /\ nextJob' = nextJob + 1
    /\ proc' = LoopAt(nextJob + 1, jobs)
    /\ UNCHANGED <<manifest, run, prev, prevCompleted, exitCode, jobs, complete, dir, fs, files>>

\* (WaitNoJoin is WaitReady without the join: main goes on whatever the
\* counter is.)
\* wg.Wait() returns once the counter is zero, lines 210-211; main prints
\* "Download complete" and returns, which ends the process and with it every
\* goroutine still running.
WaitNoJoin == TRUE

WaitReady == wg = 0

\* What is left of a goroutine that has ended, or that the process's end has
\* taken with it: where it stood and the error downloadBlob returned, its
\* locals are gone.
Ended(u) == [Idle EXCEPT !.pc = u.pc, !.err = u.err]

Wait ==
    /\ proc = "wait"
    /\ WaitReady
    /\ complete' = TRUE
    /\ proc' = "exited"
    /\ exitCode' = 0
    /\ unit' = [j \in Units |-> Ended(unit[j])]
    /\ UNCHANGED <<manifest, run, prev, prevCompleted, jobs, nextJob, wg, dir, fs, files>>

\* ------------------------------------------------------------- downloadBlob
Running(j) == j \in Units /\ proc \in {"dispatch", "wait"}

\* A return of downloadBlob: the deferred wg.Done() runs as the function
\* returns, before the caller (the goroutine's closure) sees the error.  The
\* descriptor is closed and the attempt's bar is gone.
Returned(u, j, e) ==
    [u EXCEPT ![j].pc = "returned", ![j].err = e, ![j].fd = 0, ![j].body = <<>>,
              ![j].bar = -1]

\* (DoneSkipped is a return that misses its wg.Done().)
DoneSkipped(n) == n

\* The deferred wg.Done() of line 57.
Done(n) == n - 1

\* The units as unit j enters downloadBlob: on its first attempt the call finds
\* the destination path as it is now.
AtCall(j) ==
    IF unit[j].attempt = 1
      THEN [unit EXCEPT ![j].destAtCall = Holds(jobs[j].DestPath)]
      ELSE unit

\* Lines 60-74: MkdirAll, OpenFile(O_CREATE|O_WRONLY|O_APPEND), Seek(0, SeekEnd).
\* `openFails` is the environment refusing the open (EMFILE, EACCES).
OpenStaging(j) ==
    /\ Running(j)
    /\ unit[j].pc = "open"
    /\ LET tmp == TempPath(jobs[j])
           us == AtCall(j)
       IN  \/ /\ dir = "file"
              /\ unit' = Returned(us, j, "mkdir")
              /\ wg' = Done(wg)
              /\ UNCHANGED <<dir, fs, files>>
           \/ /\ dir # "file"
              /\ dir' = "dir"
              /\ \E openFails \in BOOLEAN :
                   IF openFails
                     THEN /\ unit' = Returned(us, j, "open")
                          /\ wg' = Done(wg)
                          /\ UNCHANGED <<fs, files>>
                     ELSE LET ino == IF Exists(tmp) THEN fs[tmp] ELSE NewIno(files)
                              fl  == IF Exists(tmp) THEN files
                                     ELSE [i \in (DOMAIN files) \cup {ino} |->
                                             IF i = ino THEN <<>> ELSE files[i]]
                          IN  /\ fs' = Put(fs, tmp, ino)
                              /\ files' = fl
                              /\ unit' = [us EXCEPT ![j].pc = "fetch",
                                                      ![j].fd = ino,
                                                      ![j].startOffset = Len(fl[ino])]
                              /\ UNCHANGED wg
    /\ UNCHANGED <<manifest, run, prev, prevCompleted, proc, exitCode, jobs, nextJob, complete>>

\* The progress bar, lines 94-97: a new bar for each attempt, set to the resume
\* offset, then advanced by every chunk io.MultiWriter hands it after the
\* chunk was written to the file.
Set64(offset) == offset

Add64(value, n) == value + n

\* What the blob server may answer to a GET with resume offset `off` of a
\* blob of n bytes: a transport error (status 0), a permanent error status,
\* the full body, and for a range request the range or "not satisfiable".
Responses(off, n) ==
    {0, 404, 200}
      \cup (IF off > 0 /\ off < n  THEN {206} ELSE {})
      \cup (IF off > 0 /\ off >= n THEN {416} ELSE {})

\* The body of an accepted response: the whole blob for 200, the requested
\* range [off, end) for 206.
BodyOf(status, blob, off) ==
    IF status = 206 THEN SubSeq(blob, off + 1, Len(blob)) ELSE blob

\* The header a request carries: "bytes=<off>-" when off > 0, none otherwise
\* (lines 80-82).
RangeHeader(off) == IF off > 0 THEN <<"bytes=", off, "-">> ELSE <<>>

\* The status check of line 90.
Accepted(status) == status = 200 \/ status = 206

\* Lines 75-92: build the request, client.Do, the status check.  (The URL is
\* the one getDownloadJobs built from a registry address that already served
\* the manifest, so http.NewRequest does not fail.)
Fetch(j) ==
    /\ Running(j)
    /\ unit[j].pc = "fetch"
    /\ \E status \in Responses(unit[j].startOffset, Len(Blob(jobs[j].Layer))) :
         LET u == [unit EXCEPT ![j].requests = @ + 1,
                               ![j].range = RangeHeader(unit[j].startOffset),
                               ![j].status = status]
         IN  IF status = 0
               THEN unit' = Returned(u, j, "do") /\ wg' = Done(wg)
             ELSE IF ~Accepted(status)
               THEN unit' = Returned(u, j, "status") /\ wg' = Done(wg)
             ELSE /\ unit' = [u EXCEPT ![j].pc = "copy",
                                       ![j].body = BodyOf(status, Blob(jobs[j].Layer),
                                                          unit[j].startOffset),
                                       ![j].bar = Set64(unit[j].startOffset)]
                  /\ UNCHANGED wg
    /\ files' = Gc(files, fs, unit')
    /\ UNCHANGED <<manifest, run, prev, prevCompleted, proc, exitCode, jobs, nextJob, complete, dir, fs>>

\* io.Copy, line 97: one chunk (a byte) read from the body and appended
\* through the descriptor.  The volume holds files of up to MaxFileLen bytes.
CopyByte(j) ==
    /\ Running(j)
    /\ unit[j].pc = "copy"
    /\ unit[j].body # <<>>
    /\ Len(files[unit[j].fd]) < MaxFileLen
    /\ files' = [files EXCEPT ![unit[j].fd] = Append(@, Head(unit[j].body))]
    /\ unit' = [unit EXCEPT ![j].body = Tail(@), ![j].bar = Add64(@, 1)]
    /\ UNCHANGED <<manifest, run, prev, prevCompleted, proc, exitCode, jobs, nextJob, wg, complete, dir, fs>>

\* The body ends: io.Copy returns nil.
CopyEOF(j) ==
    /\ Running(j)
    /\ unit[j].pc = "copy"
    /\ unit[j].body = <<>>
    /\ unit' = [unit EXCEPT ![j].pc = "rename", ![j].fd = 0]
    /\ files' = Gc(files, fs, unit')
    /\ UNCHANGED <<manifest, run, prev, prevCompleted, proc, exitCode, jobs, nextJob, wg, complete, dir, fs>>

\* (AfterCopyErrorOneMore is AfterCopyError with the loop bound off by one.)
AfterCopyErrorOneMore(u, j) ==
    IF u[j].attempt <= numRetries
      THEN [u EXCEPT ![j] = [Idle EXCEPT !.pc = "open",
                                         !.attempt = u[j].attempt + 1,
                                         !.requests = u[j].requests,
                                         !.destAtCall = u[j].destAtCall,
                                         !.bar = u[j].bar]]
      ELSE Returned(u, j, "maxretries")

\* What follows a failed io.Copy, lines 98-100 and 59, 109: the next attempt
\* (the loop body's locals start afresh), or "maximum retries reached" after
\* the last one.
AfterCopyError(u, j) ==
    IF u[j].attempt < numRetries
      THEN [u EXCEPT ![j] = [Idle EXCEPT !.pc = "open",
                                         !.attempt = u[j].attempt + 1,
                                         !.requests = u[j].requests,
                                         !.destAtCall = u[j].destAtCall,
                                         !.bar = u[j].bar]]
      ELSE Returned(u, j, "maxretries")

\* io.Copy returns an error (the connection breaks, the read times out, a
\* write fails).
CopyErr(j) ==
    /\ Running(j)
    /\ unit[j].pc = "copy"
    /\ unit' = AfterCopyError(unit, j)
    /\ wg' = IF unit'[j].pc = "returned" THEN Done(wg) ELSE wg
    /\ files' = Gc(files, fs, unit')
    /\ UNCHANGED <<manifest, run, prev, prevCompleted, proc, exitCode, jobs, nextJob, complete, dir, fs>>

\* (RenameRetried is Rename with a failed os.Rename going on to the next
\* attempt.)
RenameRetried(j) ==
    /\ Running(j)
    /\ unit[j].pc = "rename"
    /\ LET tmp == TempPath(jobs[j])
       IN  IF Exists(tmp)
             THEN /\ fs' = RenameEntry(fs, tmp, jobs[j].DestPath)
                  /\ unit' = Returned(unit, j, "")
             ELSE /\ unit' = AfterCopyError(unit, j)
                  /\ UNCHANGED fs
    /\ wg' = IF unit'[j].pc = "returned" THEN Done(wg) ELSE wg
    /\ files' = Gc(files, fs', unit')
    /\ UNCHANGED <<manifest, run, prev, prevCompleted, proc, exitCode, jobs, nextJob, complete, dir>>

\* os.Rename(tempPath, job.DestPath), lines 103-106: it fails when the staging
\* path names nothing.
Rename(j) ==
    /\ Running(j)
    /\ unit[j].pc = "rename"
    /\ LET tmp == TempPath(jobs[j])
       IN  IF Exists(tmp)
             THEN /\ fs' = RenameEntry(fs, tmp, jobs[j].DestPath)
                  /\ unit' = Returned(unit, j, "")
             ELSE /\ unit' = Returned(unit, j, "rename")
                  /\ UNCHANGED fs
    /\ wg' = Done(wg)
    /\ files' = Gc(files, fs', unit')
    /\ UNCHANGED <<manifest, run, prev, prevCompleted, proc, exitCode, jobs, nextJob, complete, dir>>

\* The goroutine's closure, lines 204-206: it prints "Download error" after
\* downloadBlob has returned an error.
Report(j) ==
    /\ Running(j)
    /\ unit[j].pc = "returned"
    /\ unit[j].err # ""
    /\ unit' = [unit EXCEPT ![j] = [Ended(unit[j]) EXCEPT !.pc = "reported"]]
    /\ UNCHANGED <<manifest, run, prev, prevCompleted, proc, exitCode, jobs, nextJob, wg, complete, dir, fs, files>>

\* -------------------------------------------------------------- environment
\* The process is killed: its goroutines and descriptors are gone, the file
\* system stays as it is.
Kill ==
    /\ Alive
    /\ proc' = "killed"
    /\ unit' = [j \in Units |-> Idle]
    /\ wg' = 0
    /\ files' = Gc(files, fs, unit')
    /\ UNCHANGED <<manifest, run, prev, prevCompleted, exitCode, jobs, nextJob, complete, dir, fs>>

\* The run has ended by main's return with jobs, each of them Completed: its
\* unit was started and downloadBlob returned nil.
AllCompleted ==
    /\ proc = "exited"
    /\ complete
    /\ Units # {}
    /\ \A j \in Units : unit[j].pc = "returned" /\ unit[j].err = ""

\* The program is started again on the same registry, artifact and directory.
Rerun ==
    /\ proc \in {"killed", "exited"}
    /\ run < MaxRuns
    /\ run' = run + 1
    /\ prev' = proc
    /\ prevCompleted' = AllCompleted
    /\ proc' = "resolve"
    /\ exitCode' = -1
    /\ jobs' = <<>>
    /\ nextJob' = 1
    /\ wg' = 0
    /\ complete' = FALSE
    /\ unit' = <<>>
    /\ files' = Gc(files, fs, unit')
    /\ UNCHANGED <<manifest, dir, fs>>

\* The steps of one run in which no body stream breaks off.
Steady ==
    \/ Resolve
    \/ Dispatch
    \/ Wait
    \/ \E j \in Units : OpenStaging(j)
    \/ \E j \in Units : Fetch(j)
    \/ \E j \in Units : CopyByte(j)
    \/ \E j \in Units : CopyEOF(j)
    \/ \E j \in Units : Rename(j)
    \/ \E j \in Units : Report(j)
    \/ Kill

Interrupted == \E j \in Units : CopyErr(j)

Next == Steady \/ Interrupted

NextRerun == Steady \/ Interrupted \/ Rerun

NextRepeat == Steady \/ Rerun

\* One run on a manifest of up to MaxLayers layers.
Spec == Init /\ [][Next]_vars

\* Up to MaxRuns runs on an artifact of one layer.
SpecRerun == InitResume /\ [][NextRerun]_vars

\* One run on a manifest of FanOut layers whose body streams never break off.
SpecFanOut == InitFanOut /\ [][Steady]_vars

\* Up to MaxRuns runs on a manifest of up to MaxLayers layers whose body
\* streams never break off.
SpecRepeat == Init /\ [][NextRepeat]_vars

\* A step of downloadBlob in unit j: a blocking call of it returns.
Step(j) ==
    \/ OpenStaging(j)
    \/ Fetch(j)
    \/ CopyByte(j)
    \/ CopyEOF(j)
    \/ CopyErr(j)
    \/ Rename(j)

\* One run on an artifact of one layer in which every blocking call of
\* downloadBlob returns, unless the process is killed.
SpecFair == InitResume /\ [][Next]_vars /\ \A j \in 1..MaxLayers : WF_vars(Step(j))

\* ------------------------------------------------------------------- claims
Dispatched(j) == unit[j].pc \notin {"idle", "skipped"}

Active(j) == unit[j].pc \in {"open", "fetch", "copy", "rename"}

Terminal(j) == unit[j].pc \in {"returned", "reported"}

Completed(j) == Terminal(j) /\ unit[j].err = ""

Failed(j) == Terminal(j) /\ unit[j].err # ""

Source(j) == Blob(jobs[j].Layer)

IsDestPath(p) == p[Len(p)] # ".tmp"

\* downloadBlob has just returned and its locals can still be read.
JustReturned(j) == unit[j].pc = "returned" /\ unit[j].attempt > 0

\* The unit's only attempt met no error of its own: the staging file opened,
\* the response was accepted and the body ended without a transport error.
ServedCleanly(j) ==
    /\ JustReturned(j)
    /\ unit[j].attempt = 1
    /\ unit[j].err \notin {"mkdir", "open", "do", "status", "maxretries"}

\* The unit's only attempt met no transport or local error; the server may
\* have refused the request by its status.
ServedCleanlyOrRefused(j) ==
    /\ JustReturned(j)
    /\ unit[j].attempt = 1
    /\ unit[j].err \notin {"mkdir", "open", "do", "maxretries"}

\* The file the unit's attempt appended to began with the first startOffset
\* bytes of the source, fewer than the source has.
ResumedFromPrefix(j) ==
    LET p == IF unit[j].err = "" THEN jobs[j].DestPath ELSE TempPath(jobs[j])
        k == unit[j].startOffset
    IN  /\ k <= Len(Source(j))
        /\ Exists(p)
        /\ Len(Content(p)) >= k
        /\ SubSeq(Content(p), 1, k) = SubSeq(Source(j), 1, k)

\* The server answered the unit's request as a server that honours range
\* requests does: the full body to a request without a range, the range to a
\* range inside the blob, 416 to a range that starts at or past its end.
RangeHonoured(j) ==
    \/ unit[j].status = 200 /\ unit[j].startOffset = 0
    \/ unit[j].status = 206
    \/ unit[j].status = 416 /\ unit[j].startOffset >= Len(Source(j))

\* C1: a destination path is absent or holds a file that came there by one
\* rename of the staging file after a body stream that ended without error;
\* no byte is ever appended to the file at a destination path.  As a property
\* of every step: a destination path gets its file only in the Rename step of
\* a unit whose copy has ended, and the file at a destination path never
\* changes afterwards.
C1_DestinationOnlyByRename ==
    [][\A p \in DOMAIN fs' :
         IsDestPath(p) =>
           IF p \in DOMAIN fs
             THEN files'[fs'[p]] = files[fs[p]]
             ELSE \E j \in Units :
                    /\ unit[j].pc = "rename"
                    /\ unit'[j].pc = "returned"
                    /\ jobs[j].DestPath = p
                    /\ TempPath(jobs[j]) \in DOMAIN fs
                    /\ files'[fs'[p]] = files[fs[TempPath(jobs[j])]]]_vars

\* C2: a call that starts on a staging file holding the first K bytes of an
\* N-byte source, 0 < K < N, asks for the range "bytes=K-", and when it
\* returns success (after a 200 or a 206) the destination file is the source.
C2_ResumeCorrect ==
    \A j \in Units :
      ( /\ JustReturned(j)
        /\ unit[j].attempt = 1
        /\ unit[j].err = ""
        /\ 0 < unit[j].startOffset
        /\ unit[j].startOffset < Len(Source(j))
        /\ ResumedFromPrefix(j) )
      => /\ unit[j].range = <<"bytes=", unit[j].startOffset, "-">>
         /\ Content(jobs[j].DestPath) = Source(j)

\* C3: a permanent error status takes one attempt of the retry budget: the
\* job is Failed for it only after numRetries attempts and requests.
C3_StatusErrorRetried ==
    \A j \in Units :
      (JustReturned(j) /\ unit[j].err = "status" /\ unit[j].status = 404)
      => unit[j].attempt = numRetries /\ unit[j].requests = numRetries

\* C4: a transport error, while issuing the request or while reading the
\* body, sends the job to its next attempt while attempts remain: the job is
\* Failed for it only at attempt numRetries.
C4_TransportErrorRetried ==
    \A j \in Units :
      (JustReturned(j) /\ unit[j].err \in {"do", "maxretries"})
      => unit[j].attempt = numRetries

\* C5: failure isolation: where one job has failed, every sibling whose own
\* source served its body without error is Completed once it has returned,
\* with its destination file present.
C5_FailureIsolation ==
    \A i \in Units : \A j \in Units \ {i} :
      (Failed(i) /\ ServedCleanly(j))
      => unit[j].err = "" /\ Exists(jobs[j].DestPath)

\* C6: "Download complete" is reported only when every dispatched unit has
\* reached its terminal outcome.
C6_CompleteAfterAllUnits ==
    complete => \A j \in Units : Dispatched(j) => Terminal(j)

\* A run reports completion after two units of which one completed and one
\* failed.
C6_Witness ==
    /\ complete
    /\ \E i \in Units : \E j \in Units : Completed(i) /\ Failed(j)

\* C7: a failed job's "Download error" line is printed before the run reports
\* completion and the process ends.
C7_ErrorsReportedBeforeComplete ==
    complete => \A j \in Units : Failed(j) => unit[j].pc = "reported"

\* C8: no two units work on the same staging path at the same time: the
\* dispatched jobs have pairwise distinct staging paths.
C8_DistinctStagingPaths ==
    \A i \in Units : \A j \in Units \ {i} :
      (Active(i) /\ Active(j)) => TempPath(jobs[i]) # TempPath(jobs[j])

\* C9: the staging file is never longer than the descriptor's expected size,
\* and no longer file is committed to the destination.
C9_StagingWithinSize ==
    \A j \in Units :
      /\ (Dispatched(j) /\ Exists(TempPath(jobs[j])))
           => Len(Content(TempPath(jobs[j]))) <= jobs[j].Size
      /\ (Completed(j) /\ Exists(jobs[j].DestPath))
           => Len(Content(jobs[j].DestPath)) <= jobs[j].Size

\* C10: after a kill, a run without further faults against a server that
\* honours range requests takes the staging file up at its length and ends
\* Completed with a destination file equal to the source.
C10_RestartCompletes ==
    \A j \in Units :
      ( /\ prev = "killed"
        /\ ServedCleanlyOrRefused(j)
        /\ RangeHonoured(j)
        /\ ResumedFromPrefix(j) )
      => /\ unit[j].err = ""
         /\ Content(jobs[j].DestPath) = Source(j)

\* C11: once a run has ended with every job Completed, no step of the next run
\* on the same manifest and directory changes a path or a file's content,
\* starts a unit, counts one in the WaitGroup or issues a blob request, and
\* when that run has gone through its jobs each of them was skipped.
C11_RerunIdempotent ==
    [][prevCompleted =>
         /\ fs' = fs
         /\ files' = files
         /\ wg' = 0
         /\ \A j \in DOMAIN unit' :
              unit'[j].pc \in {"idle", "skipped"} /\ unit'[j].requests = 0
         /\ complete' => \A j \in DOMAIN unit' : unit'[j].pc = "skipped"]_vars

C11_Witness ==
    /\ prevCompleted
    /\ complete
    /\ Len(jobs) = 2
    /\ jobs[1].DestPath # jobs[2].DestPath
    /\ \A j \in Units : unit[j].pc = "skipped" /\ Content(jobs[j].DestPath) = Source(j)

\* C12: the iteration of the dispatch loop that finds the job's destination
\* path present marks the job skipped and changes nothing else (no path, no
\* file content, not the WaitGroup counter), and a skipped job takes no step
\* afterwards: it never opens, requests, writes or renames.
C12_SkipPreCheck ==
    [][\A j \in Units :
         /\ (nextJob = j /\ nextJob' = j + 1 /\ Exists(jobs[j].DestPath)) =>
               /\ unit'[j] = [Idle EXCEPT !.pc = "skipped"]
               /\ wg' = wg
               /\ fs' = fs
               /\ files' = files
         /\ (unit[j].pc = "skipped" /\ proc' \in {"dispatch", "wait", "exited"}
                                   /\ run' = run) =>
               unit'[j] = unit[j]]_vars

C12_Witness ==
    \E j \in Units :
      /\ unit[j].pc = "skipped"
      /\ Exists(jobs[j].DestPath)
      /\ Exists(TempPath(jobs[j]))
      /\ proc = "exited"

\* C13: at the step in which downloadBlob returns an error, the destination
\* path holds what it held when the call began (nothing, or the same file),
\* and the staging file the last attempt opened is still there and no shorter
\* than that attempt found it.
FailedAsItFound(j) ==
    /\ Holds(jobs[j].DestPath) = unit[j].destAtCall
    /\ unit[j].err \notin {"mkdir", "open"} =>
          /\ Exists(TempPath(jobs[j]))
          /\ Len(Content(TempPath(jobs[j]))) >= unit[j].startOffset

C13_FailedLeavesFilesAlone ==
    [][\A j \in Units :
         (Active(j) /\ Failed(j)') => FailedAsItFound(j)']_vars

\* A digest that is not "sha256:" followed by at least 12 characters.
Malformed(layer) ==
    \/ Len(layer.Digest) < Len(Sha256Prefix) + 12
    \/ SubSeq(layer.Digest, 1, Len(Sha256Prefix)) # Sha256Prefix

Downloadable(layer) == layer.MediaType \in DOMAIN mediaTypeToFileTemplate

NothingStarted ==
    /\ \A j \in Units : unit[j].pc = "idle" /\ unit[j].requests = 0
    /\ wg = 0
    /\ DOMAIN fs = {}
    /\ ~complete

\* C14 as stated: a manifest of another media type, or one that lists a layer
\* with a malformed digest, starts no unit, no request and no file, and the
\* process ends with a status other than 0.
C14_AnyMalformedLayerAborts ==
    (\/ manifest.MediaType # ManifestV2
     \/ \E i \in DOMAIN manifest.Layers : Malformed(manifest.Layers[i])) =>
      /\ NothingStarted
      /\ proc = "exited" => exitCode \in {1, 2}

\* C14, amended: a manifest of another media type, or one that lists a layer
\* of a known media type with a malformed digest, never gets main past
\* getDownloadJobs; and whenever main ends without "Download complete" (the
\* manifest request failed, met another status than 200 or a body that does
\* not decode, or the manifest was such a one) it has started no unit, no
\* request and no file, and the exit status is 1 or 2.
C14_ResolutionErrorsAbort ==
    /\ (\/ manifest.MediaType # ManifestV2
        \/ \E i \in DOMAIN manifest.Layers :
             Downloadable(manifest.Layers[i]) /\ Malformed(manifest.Layers[i])) =>
         /\ proc \in {"resolve", "exited", "killed"}
         /\ jobs = <<>>
         /\ NothingStarted
    /\ (proc = "exited" /\ ~complete) =>
         /\ exitCode \in {1, 2}
         /\ jobs = <<>>
         /\ NothingStarted

C14_Witness ==
    /\ proc = "exited"
    /\ exitCode = 1
    /\ Len(manifest.Layers) = 2
    /\ Downloadable(manifest.Layers[1]) /\ ~Malformed(manifest.Layers[1])
    /\ Downloadable(manifest.Layers[2]) /\ Malformed(manifest.Layers[2])
    /\ NothingStarted

\* The requests a call has issued, by where it stands in its attempt: the
\* attempt's own request is out once client.Do has returned.
RequestsDue(j) ==
    IF \/ unit[j].pc \in {"open", "fetch"}
       \/ unit[j].pc = "returned" /\ unit[j].err \in {"mkdir", "open"}
      THEN unit[j].attempt - 1
      ELSE unit[j].attempt

InCall(j) == Active(j) \/ JustReturned(j)

\* C15: a call of downloadBlob whose blocking calls return comes to its return
\* (unless the process is killed); it is never past its 10th attempt, it has
\* issued one request for each attempt that got to client.Do and so at most
\* 10; a copy error on an attempt before the 10th leads to the next attempt,
\* one on the 10th to the return of "maximum retries reached", which is
\* returned in no other way, and neither changes any path.
C15_TerminatesWithinRetries ==
    /\ [](\A j \in Units : InCall(j) =>
            /\ unit[j].attempt \in 1..numRetries
            /\ unit[j].requests = RequestsDue(j)
            /\ unit[j].requests <= numRetries)
    /\ [][\A j \in Units :
            /\ (unit[j].pc = "copy" /\ unit'[j].pc = "open") =>
                  /\ unit[j].attempt < numRetries
                  /\ unit'[j].attempt = unit[j].attempt + 1
                  /\ fs' = fs
            /\ (unit[j].pc = "copy" /\ unit'[j].pc = "returned") =>
                  /\ unit[j].attempt = numRetries
                  /\ unit'[j].err = "maxretries"
                  /\ unit'[j].requests = numRetries
                  /\ fs' = fs
            /\ (Active(j) /\ unit'[j].pc = "returned" /\ unit'[j].err = "maxretries") =>
                  unit[j].pc = "copy"]_vars
    /\ \A j \in 1..MaxLayers :
         (j \in Units /\ Active(j)) ~> (proc = "killed" \/ (j \in Units /\ Terminal(j)))

C15_Witness ==
    \E j \in Units :
      /\ unit[j].pc = "returned"
      /\ unit[j].err = "maxretries"
      /\ unit[j].requests = numRetries
      /\ Exists(TempPath(jobs[j]))
      /\ ~Exists(jobs[j].DestPath)

StagingLen(j) ==
    IF Exists(TempPath(jobs[j])) THEN Len(Content(TempPath(jobs[j]))) ELSE 0

\* C16: an attempt that opens the staging file takes as resume offset the
\* length the file has as the attempt starts; its request carries the header
\* "bytes=<offset>-" if the offset is above 0 and no Range header otherwise;
\* an attempt broken off in its copy renames nothing, and the attempt after
\* it resumes at the broken attempt's offset plus the bytes it appended.
C16_ResumeOffsetEachAttempt ==
    [][\A j \in Units :
         /\ (unit[j].pc = "open" /\ unit'[j].pc = "fetch") =>
               /\ unit'[j].startOffset = StagingLen(j)
               /\ unit[j].attempt > 1 => unit'[j].startOffset = unit[j].bar
         /\ (unit[j].pc = "fetch" /\ unit'[j].requests = unit[j].requests + 1) =>
               /\ unit[j].startOffset > 0 =>
                     unit'[j].range = <<"bytes=", unit[j].startOffset, "-">>
               /\ unit[j].startOffset = 0 => unit'[j].range = <<>>
         /\ (unit[j].pc = "copy" /\ unit'[j].pc = "open") =>
               /\ fs' = fs
               /\ unit'[j].bar = unit[j].startOffset
                                   + Len(BodyOf(unit[j].status, Source(j), unit[j].startOffset))
                                   - Len(unit[j].body)]_vars

\* The step of unit j from u to v is a return of downloadBlob with error e in
\* the attempt it was in, with no request issued in the step.
ReturnsAtOnce(u, v, e) ==
    /\ v.pc = "returned"
    /\ v.err = e
    /\ v.attempt = u.attempt
    /\ v.requests = u.requests

\* C17: an attempt whose MkdirAll fails (the directory path names a file) or
\* whose OpenFile fails is the call's last: downloadBlob returns that error
\* with no request issued in the attempt, no path changed and its count taken
\* off the WaitGroup; an attempt whose os.Rename fails (the staging path names
\* nothing) likewise returns that error; and a call that has returned one of
\* these errors makes no further attempt or request.
C17_LocalErrorsShortCircuit ==
    [][\A j \in Units :
         /\ (unit[j].pc = "open" /\ unit'[j].pc \notin {"open", "idle"}) =>
               /\ dir = "file" => ReturnsAtOnce(unit[j], unit'[j], "mkdir")
               /\ unit'[j].pc # "fetch" =>
                     /\ \/ ReturnsAtOnce(unit[j], unit'[j], "mkdir")
                        \/ ReturnsAtOnce(unit[j], unit'[j], "open")
                     /\ unit[j].requests = unit[j].attempt - 1
                     /\ fs' = fs
                     /\ wg' = wg - 1
         /\ (unit[j].pc = "rename" /\ unit'[j].pc \notin {"rename", "idle"}) =>
               /\ ~Exists(TempPath(jobs[j])) =>
                     /\ ReturnsAtOnce(unit[j], unit'[j], "rename")
                     /\ fs' = fs
               /\ unit'[j].pc = "returned"
               /\ wg' = wg - 1
         /\ (unit[j].pc = "returned" /\ unit[j].err \in {"mkdir", "open", "rename"}) =>
               /\ unit'[j].pc \in {"returned", "reported", "idle"}
               /\ unit'[j].requests <= unit[j].requests]_vars

C17_Witness ==
    \E j \in Units :
      /\ unit[j].pc = "returned"
      /\ unit[j].err = "open"
      /\ unit[j].attempt = 2
      /\ unit[j].requests = 1

\* C18: within one call of downloadBlob the value pushed to the progress bar
\* never goes down: an attempt's first value is its resume offset, each chunk
\* appended adds its length, and the first value of a retry is not below the
\* last value of the attempt before it.
C18_ProgressNeverDecreases ==
    [][\A j \in Units :
         (Active(j) /\ Active(j)') =>
           /\ unit'[j].bar >= unit[j].bar
           /\ (unit[j].pc = "fetch" /\ unit'[j].pc = "copy") =>
                 unit'[j].bar = unit[j].startOffset
           /\ (unit[j].pc = "copy" /\ unit'[j].pc = "copy" /\ unit'[j] # unit[j]) =>
                 /\ unit'[j].bar = unit[j].bar + 1
                 /\ Len(files'[unit[j].fd]) = Len(files[unit[j].fd]) + 1]_vars

\* C19: the WaitGroup counter is never negative and is the number of units
\* that were dispatched and have not returned from downloadBlob, so that
\* main, once at wg.Wait(), can go on exactly when every dispatched unit has
\* returned.
C19_JoinAccounting ==
    /\ wg >= 0
    /\ wg = Cardinality({j \in Units : Active(j)})
    /\ proc = "wait" => (WaitReady <=> \A j \in Units : Dispatched(j) => Terminal(j))

C19_Witness ==
    /\ wg = 1
    /\ proc = "wait"
    /\ \E i \in Units : \E j \in Units : Failed(i) /\ unit[j].pc = "rename"

====
